---------------------------- MODULE Spec2Model ----------------------------
(***************************************************************************)
(* Collaborative edit protocol layer of vim_pepper.c: nacl_main start-up,  *)
(* the js_msgloop dispatcher thread, collab_remoteapply on the main thread *)
(* and the collab_queue between the two threads.                           *)
(*                                                                         *)
(* Strings are sequences of character codes; 0 is the NUL character.       *)
(***************************************************************************)
EXTENDS Integers, Sequences, FiniteSets, TLC

VARIABLES
    mainPc,        \* position of the main thread in nacl_main
    exitStatus,    \* return value of nacl_main, NoStatus while it runs
    ppb_var,       \* interface handles (static, zero-initialised)
    ppb_dict,
    ppb_msg,
    pp_ins,
    pp_vars,       \* the ten static PP_Var key/tag constants
    dispPc,        \* position of the js_msgloop thread
    event,         \* event->as_var of the event the dispatcher holds
    edit,          \* the dispatcher's local collabedit_T *edit
    collab_queue,  \* the queue shared by the two threads
    heldEvents,    \* events acquired and not released
    arrived,       \* history: inbound messages in arrival order
    consumed,      \* history: edits dequeued by the main thread
    outcome,       \* history: branch taken for the last handled message
    dispDiag,      \* history: format string of the last js_printf for the held event
    nPosted,       \* history: number of PostMessage calls
    pub,           \* history: the last collab_remoteapply call
    nPublish,      \* history: number of collab_remoteapply calls
    curbuf,        \* the editor's global current-buffer pointer
    textPtr,       \* history: the block each enqueued edit's text pointer points into
    recFate        \* history: fate of the collabedit_T malloc'ed for the held event

vars == << mainPc, exitStatus, ppb_var, ppb_dict, ppb_msg, pp_ins, pp_vars,
           dispPc, event, edit, collab_queue, heldEvents, arrived, consumed,
           outcome, dispDiag, nPosted, pub, nPublish, curbuf, textPtr,
           recFate >>

-----------------------------------------------------------------------------
(* Bounds of the model *)

MaxEvents == 2      \* inbound messages delivered in one run
MaxPublish == 1     \* collab_remoteapply calls in one run

(* Program constants *)

INT32_MAX == 2147483647
ExitSetupFailed == 1
ExitMissingInterface == 2
NoStatus == -1      \* nacl_main has not returned

NULL == "NULL"
Iface == "iface"

-----------------------------------------------------------------------------
(* C integer conversions.  Native Client is an ILP32 target: int, long and  *)
(* int32_t are all 32 bits wide, so the line, index and length of a        *)
(* collabedit_T already are int32_t values.                                *)

\* conversion to int32_t of a value of a 32-bit signed type
ToInt32(n) == n

\* (int)(a - b) for uint32_t a, b below 2^31: the subtraction wraps modulo
\* 2^32 and the conversion to int undoes the wrap
Uint32DiffToInt(a, b) == a - b

-----------------------------------------------------------------------------
(* String literals of nacl_main, as character codes *)

S_append_line == << 97,112,112,101,110,100,95,108,105,110,101 >>
S_insert_text == << 105,110,115,101,114,116,95,116,101,120,116 >>
S_remove_line == << 114,101,109,111,118,101,95,108,105,110,101 >>
S_delete_text == << 100,101,108,101,116,101,95,116,101,120,116 >>
S_replace_line == << 114,101,112,108,97,99,101,95,108,105,110,101 >>
S_collabedit_type == << 99,111,108,108,97,98,101,100,105,116,95,116,121,112,101 >>
S_line == << 108,105,110,101 >>
S_text == << 116,101,120,116 >>
S_index == << 105,110,100,101,120 >>
S_length == << 108,101,110,103,116,104 >>

-----------------------------------------------------------------------------
(* PP_Var values.  as_int is what reading value.as_int yields: the number   *)
(* for an int32 var, the low word of the var id for a string or dictionary, *)
(* 0 for an undefined var.                                                  *)

NoEntries == [k \in {} |-> 0]

PP_MakeUndefined ==
    [type |-> "UNDEFINED", as_int |-> 0, str |-> << >>, entries |-> NoEntries]

PP_MakeInt32(n) ==
    [type |-> "INT32", as_int |-> ToInt32(n), str |-> << >>, entries |-> NoEntries]

\* a string var with var id `id`
StringVar(s, id) ==
    [type |-> "STRING", as_int |-> id, str |-> s, entries |-> NoEntries]

\* a dictionary var with var id `id` and the entries e (key string -> PP_Var)
DictVar(e, id) ==
    [type |-> "DICTIONARY", as_int |-> id, str |-> << >>, entries |-> e]

LocalVarId == 1     \* id of a var created by this module (never read)

\* strlen: number of characters before the first NUL (the end of the
\* sequence stands for the terminating NUL of the buffer)
RECURSIVE strlenFrom(_, _)
strlenFrom(s, i) ==
    IF i > Len(s) THEN i - 1
    ELSE IF s[i] = 0 THEN i - 1
    ELSE strlenFrom(s, i + 1)

strlen(s) == strlenFrom(s, 1)

\* ppb_var->VarFromUtf8(data, len)
VarFromUtf8(data, len) == StringVar(SubSeq(data, 1, len), LocalVarId)

\* the macro UTF8_TO_VAR(str)
UTF8_TO_VAR(str) == VarFromUtf8(str, strlen(str))

\* ppb_var->VarToUtf8(var, &len): NULL and length 0 for a var that is no string
VarToUtf8(v) ==
    IF v.type = "STRING"
    THEN [null |-> FALSE, data |-> v.str, len |-> Len(v.str)]
    ELSE [null |-> TRUE, data |-> << >>, len |-> 0]

\* strncpy(dst, src, n): the n characters written to dst; copying stops at
\* the first NUL of src and the rest is filled with NUL
strncpy(src, n) ==
    [i \in 1..n |-> IF i <= strlen(src) THEN src[i] ELSE 0]

\* strncmp(s1, s2, n) for s1, s2 holding at least n characters: the
\* difference of the first pair of unequal characters, 0 when the first n
\* characters agree or both strings end before that
RECURSIVE strncmpFrom(_, _, _, _)
strncmpFrom(s1, s2, i, n) ==
    IF i > n THEN 0
    ELSE IF s1[i] # s2[i] THEN s1[i] - s2[i]
    ELSE IF s1[i] = 0 THEN 0
    ELSE strncmpFrom(s1, s2, i + 1, n)

strncmp(s1, s2, n) == strncmpFrom(s1, s2, 1, n)

-----------------------------------------------------------------------------
(* PPB_VarDictionary *)

\* ppb_dict->Create()
DictCreate == DictVar(NoEntries, LocalVarId)

\* ppb_dict->HasKey(dict, key)
HasKey(dict, key) ==
    /\ dict.type = "DICTIONARY"
    /\ key.type = "STRING"
    /\ key.str \in DOMAIN dict.entries

\* ppb_dict->Get(dict, key): the undefined var when the key is absent
Get(dict, key) ==
    IF HasKey(dict, key) THEN dict.entries[key.str] ELSE PP_MakeUndefined

\* ppb_dict->Set(dict, key, value): the dictionary afterwards
Set(dict, key, value) ==
    [dict EXCEPT !.entries =
        [k \in DOMAIN dict.entries \cup {key.str} |->
            IF k = key.str THEN value ELSE dict.entries[k]]]

-----------------------------------------------------------------------------
(* Helpers of vim_pepper.c *)

\* var_to_cstr copying one character too few
var_to_cstr_short(str_var) ==
    LET u    == VarToUtf8(str_var)
        n    == IF u.len > 0 THEN u.len - 1 ELSE 0
        cstr == strncpy(u.data, n) \o << 0 >>
    IN  SubSeq(cstr, 1, strlen(cstr))

\* var_to_cstr: the C string held by the malloc'ed copy.  For a var that is
\* no string VarToUtf8 gives NULL and length 0: strncpy is asked for 0
\* characters and copies none, and the copy is the empty string.
var_to_cstr(str_var) ==
    LET u    == VarToUtf8(str_var)
        cstr == strncpy(u.data, u.len) \o << 0 >>
    IN  SubSeq(cstr, 1, strlen(cstr))

\* var_to_cstr returning vstr, the pointer VarToUtf8 gave, without a copy
var_to_cstr_block_vstr(str_var) == "event"

\* the block the pointer var_to_cstr returns points into: the one malloc
\* gave, the caller's own, and not the storage of the var ("event")
var_to_cstr_block(str_var) == "malloc"

\* pp_strcmp with the difference of the lengths taken from the compared
\* length instead of the length of v1
pp_strcmp_minlen(v1, v2) ==
    LET u1  == VarToUtf8(v1)
        u2  == VarToUtf8(v2)
        n   == IF u1.len < u2.len THEN u1.len ELSE u2.len
        cmp == strncmp(u1.data, u2.data, n)
    IN  IF cmp = 0 THEN Uint32DiffToInt(n, u2.len) ELSE cmp

\* pp_strcmp with the length comparison left out
pp_strcmp_prefix(v1, v2) ==
    LET u1 == VarToUtf8(v1)
        u2 == VarToUtf8(v2)
        n  == IF u1.len < u2.len THEN u1.len ELSE u2.len
    IN  strncmp(u1.data, u2.data, n)

\* pp_strcmp: strncmp over the shorter length, then the length difference
\* (computed in uint32_t and converted to int)
pp_strcmp(v1, v2) ==
    LET u1  == VarToUtf8(v1)
        u2  == VarToUtf8(v2)
        n   == IF u1.len < u2.len THEN u1.len ELSE u2.len
        cmp == strncmp(u1.data, u2.data, n)
    IN  IF cmp = 0 THEN Uint32DiffToInt(u1.len, u2.len) ELSE cmp

-----------------------------------------------------------------------------
(* collabedit_T: the tag and the fields of the tagged variant *)

NullEdit == [type |-> "NULL"]

AppendLine(l, t) ==
    [type |-> "COLLAB_APPEND_LINE", file_buf |-> curbuf, line |-> l, text |-> t]
InsertText(l, i, t) ==
    [type |-> "COLLAB_INSERT_TEXT", file_buf |-> curbuf, line |-> l, index |-> i,
     text |-> t]
RemoveLine(l) ==
    [type |-> "COLLAB_REMOVE_LINE", file_buf |-> curbuf, line |-> l]
DeleteText(l, i, n) ==
    [type |-> "COLLAB_DELETE_TEXT", file_buf |-> curbuf, line |-> l, index |-> i,
     length |-> n]
ReplaceLine(l, t) ==
    [type |-> "COLLAB_REPLACE_LINE", file_buf |-> curbuf, line |-> l, text |-> t]

-----------------------------------------------------------------------------
(* collab_remoteapply: the dictionary built for an edit *)

\* the switch of collab_remoteapply with the text of a removed line sent too
RemoteApplyDict_extra(e) ==
    LET dict == DictCreate
    IN  CASE e.type = "COLLAB_APPEND_LINE" ->
               Set(Set(Set(dict, pp_vars.type_key, pp_vars.type_append_line),
                       pp_vars.line_key, PP_MakeInt32(e.line)),
                   pp_vars.text_key, UTF8_TO_VAR(e.text))
          [] e.type = "COLLAB_INSERT_TEXT" ->
               Set(Set(Set(Set(dict, pp_vars.type_key, pp_vars.type_insert_text),
                           pp_vars.line_key, PP_MakeInt32(e.line)),
                       pp_vars.index_key, PP_MakeInt32(e.index)),
                   pp_vars.text_key, UTF8_TO_VAR(e.text))
          [] e.type = "COLLAB_REMOVE_LINE" ->
               Set(Set(Set(dict, pp_vars.type_key, pp_vars.type_remove_line),
                       pp_vars.line_key, PP_MakeInt32(e.line)),
                   pp_vars.text_key, UTF8_TO_VAR(<< >>))
          [] e.type = "COLLAB_DELETE_TEXT" ->
               Set(Set(Set(Set(dict, pp_vars.type_key, pp_vars.type_delete_text),
                           pp_vars.line_key, PP_MakeInt32(e.line)),
                       pp_vars.index_key, PP_MakeInt32(e.index)),
                   pp_vars.length_key, PP_MakeInt32(e.length))
          [] e.type = "COLLAB_REPLACE_LINE" ->
               Set(Set(Set(dict, pp_vars.type_key, pp_vars.type_replace_line),
                       pp_vars.line_key, PP_MakeInt32(e.line)),
                   pp_vars.text_key, UTF8_TO_VAR(e.text))
          [] OTHER -> dict

\* the switch of collab_remoteapply (no default case: an edit of no known
\* type leaves the dictionary empty)
RemoteApplyDict(e) ==
    LET dict == DictCreate
    IN  CASE e.type = "COLLAB_APPEND_LINE" ->
               Set(Set(Set(dict, pp_vars.type_key, pp_vars.type_append_line),
                       pp_vars.line_key, PP_MakeInt32(e.line)),
                   pp_vars.text_key, UTF8_TO_VAR(e.text))
          [] e.type = "COLLAB_INSERT_TEXT" ->
               Set(Set(Set(Set(dict, pp_vars.type_key, pp_vars.type_insert_text),
                           pp_vars.line_key, PP_MakeInt32(e.line)),
                       pp_vars.index_key, PP_MakeInt32(e.index)),
                   pp_vars.text_key, UTF8_TO_VAR(e.text))
          [] e.type = "COLLAB_REMOVE_LINE" ->
               Set(Set(dict, pp_vars.type_key, pp_vars.type_remove_line),
                   pp_vars.line_key, PP_MakeInt32(e.line))
          [] e.type = "COLLAB_DELETE_TEXT" ->
               Set(Set(Set(Set(dict, pp_vars.type_key, pp_vars.type_delete_text),
                           pp_vars.line_key, PP_MakeInt32(e.line)),
                       pp_vars.index_key, PP_MakeInt32(e.index)),
                   pp_vars.length_key, PP_MakeInt32(e.length))
          [] e.type = "COLLAB_REPLACE_LINE" ->
               Set(Set(Set(dict, pp_vars.type_key, pp_vars.type_replace_line),
                       pp_vars.line_key, PP_MakeInt32(e.line)),
                   pp_vars.text_key, UTF8_TO_VAR(e.text))
          [] OTHER -> dict

\* the bridge calls the switch of collab_remoteapply makes, in order
RemoteApplySets(e) ==
    CASE e.type = "COLLAB_APPEND_LINE" -> << "Set", "Set", "VarFromUtf8", "Set" >>
      [] e.type = "COLLAB_INSERT_TEXT" ->
           << "Set", "Set", "Set", "VarFromUtf8", "Set" >>
      [] e.type = "COLLAB_REMOVE_LINE" -> << "Set", "Set" >>
      [] e.type = "COLLAB_DELETE_TEXT" -> << "Set", "Set", "Set", "Set" >>
      [] e.type = "COLLAB_REPLACE_LINE" -> << "Set", "Set", "VarFromUtf8", "Set" >>
      [] OTHER -> << >>

\* collab_remoteapply posting the dictionary a second time
RemoteApplyCalls_retry(e) ==
    << "Create" >> \o RemoteApplySets(e) \o << "PostMessage", "PostMessage", "Release" >>

\* the calls collab_remoteapply makes on the dictionary it builds:
\* ppb_dict->Create(), the switch, ppb_msg->PostMessage(pp_ins, dict),
\* ppb_var->Release(dict)
RemoteApplyCalls(e) ==
    << "Create" >> \o RemoteApplySets(e) \o << "PostMessage", "Release" >>

\* number of calls of op in a sequence of calls
CountCalls(calls, op) == Cardinality({i \in 1..Len(calls) : calls[i] = op})

-----------------------------------------------------------------------------
(* js_msgloop: the filter and the parse of one message *)

\* the filter with the HasKey test left out
IsNotCollabedit_typeonly(dict) ==
    dict.type # "DICTIONARY"

\* "Ignore anything that isn't a dictionary representing a collabedit"
IsNotCollabedit(dict) ==
    \/ dict.type # "DICTIONARY"
    \/ ~HasKey(dict, pp_vars.type_key)

\* the if/else chain over the discriminator: the edit built, NullEdit for an
\* unknown type (the record is freed and edit set to NULL)
ParseEdit(dict) ==
    LET var_type == Get(dict, pp_vars.type_key)
        line     == Get(dict, pp_vars.line_key).as_int
        index    == Get(dict, pp_vars.index_key).as_int
        length   == Get(dict, pp_vars.length_key).as_int
        text     == var_to_cstr(Get(dict, pp_vars.text_key))
    IN  IF pp_strcmp(var_type, pp_vars.type_append_line) = 0
          THEN AppendLine(line, text)
        ELSE IF pp_strcmp(var_type, pp_vars.type_insert_text) = 0
          THEN InsertText(line, index, text)
        ELSE IF pp_strcmp(var_type, pp_vars.type_remove_line) = 0
          THEN RemoveLine(line)
        ELSE IF pp_strcmp(var_type, pp_vars.type_delete_text) = 0
          THEN DeleteText(line, index, length)
        ELSE IF pp_strcmp(var_type, pp_vars.type_replace_line) = 0
          THEN ReplaceLine(line, text)
        ELSE NullEdit

\* the test before collab_enqueue left out
ShouldEnqueue_always(e) == TRUE

\* "if (edit != NULL)" before collab_enqueue
ShouldEnqueue(e) == e.type # "NULL"

-----------------------------------------------------------------------------
(* The edit queue (collab_enqueue and the consumer's blocking dequeue) *)

\* push: the edit becomes the last element
collab_enqueue(queue, e) == Append(queue, e)

\* pop_blocking: enabled on a non-empty queue, removes the first element
collab_dequeue(queue) == [head |-> Head(queue), rest |-> Tail(queue)]

-----------------------------------------------------------------------------
(* Inputs *)

\* the edits the editor core hands to collab_remoteapply: every variant,
\* with the smallest and the largest number in the numeric fields and an
\* empty and a non-empty text (a C string, so without NUL)
EditOps ==
    { AppendLine(0, << 97, 98 >>),
      InsertText(0, INT32_MAX, << 97, 98 >>),
      InsertText(INT32_MAX, 0, << >>),
      RemoveLine(INT32_MAX),
      DeleteText(0, INT32_MAX, 1),
      DeleteText(INT32_MAX, 0, INT32_MAX),
      ReplaceLine(INT32_MAX, << >>) }

\* a string var made by the remote side (its var id is 7)
RemoteString(s) == StringVar(s, 7)

\* a dictionary var made by the remote side from <<key, value>> pairs
RemoteDict(pairs) ==
    DictVar([k \in {p[1] : p \in pairs} |-> (CHOOSE p \in pairs : p[1] = k)[2]], 8)

S_a == << 97 >>

\* the messages the host bridge may deliver
InboundMsgs ==
    { \* not a mapping
      RemoteString(S_a),
      \* a mapping without the discriminator
      RemoteDict({<<S_line, PP_MakeInt32(1)>>, <<S_text, RemoteString(S_a)>>}),
      \* discriminators that are no tag: the empty string, a number, a tag
      \* with one more character, a tag without its last character
      RemoteDict({<<S_collabedit_type, RemoteString(<< >>)>>,
                  <<S_line, PP_MakeInt32(1)>>}),
      RemoteDict({<<S_collabedit_type, PP_MakeInt32(3)>>,
                  <<S_line, PP_MakeInt32(1)>>}),
      RemoteDict({<<S_collabedit_type, RemoteString(S_remove_line \o S_a)>>,
                  <<S_line, PP_MakeInt32(1)>>}),
      RemoteDict({<<S_collabedit_type, RemoteString(SubSeq(S_remove_line, 1, 10))>>,
                  <<S_line, PP_MakeInt32(1)>>}),
      \* well-formed messages
      RemoteDict({<<S_collabedit_type, RemoteString(S_append_line)>>,
                  <<S_line, PP_MakeInt32(1)>>, <<S_text, RemoteString(S_a)>>}),
      RemoteDict({<<S_collabedit_type, RemoteString(S_delete_text)>>,
                  <<S_line, PP_MakeInt32(1)>>, <<S_index, PP_MakeInt32(2)>>,
                  <<S_length, PP_MakeInt32(3)>>}),
      \* a required field absent
      RemoteDict({<<S_collabedit_type, RemoteString(S_insert_text)>>,
                  <<S_line, PP_MakeInt32(1)>>, <<S_text, RemoteString(S_a)>>}),
      \* required fields of the wrong type
      RemoteDict({<<S_collabedit_type, RemoteString(S_replace_line)>>,
                  <<S_line, RemoteString(S_a)>>, <<S_text, PP_MakeInt32(9)>>}),
      \* a negative number
      RemoteDict({<<S_collabedit_type, RemoteString(S_remove_line)>>,
                  <<S_line, PP_MakeInt32(-1)>>}) }

-----------------------------------------------------------------------------
(* Initial state: the statics of vim_pepper.c are zero-initialised *)

NoVars ==
    [type_append_line |-> PP_MakeUndefined, type_insert_text |-> PP_MakeUndefined,
     type_remove_line |-> PP_MakeUndefined, type_delete_text |-> PP_MakeUndefined,
     type_replace_line |-> PP_MakeUndefined, type_key |-> PP_MakeUndefined,
     line_key |-> PP_MakeUndefined, text_key |-> PP_MakeUndefined,
     index_key |-> PP_MakeUndefined, length_key |-> PP_MakeUndefined]

NoEvent == PP_MakeUndefined

NoPub == [edit |-> NullEdit, dict |-> PP_MakeUndefined, calls |-> << >>,
          sendOk |-> TRUE, reported |-> "none"]

Init ==
    /\ mainPc = "setup"
    /\ exitStatus = NoStatus
    /\ ppb_var = NULL
    /\ ppb_dict = NULL
    /\ ppb_msg = NULL
    /\ pp_ins = 0
    /\ pp_vars = NoVars
    /\ dispPc = "unborn"
    /\ event = NoEvent
    /\ edit = NullEdit
    /\ collab_queue = << >>
    /\ heldEvents = 0
    /\ arrived = << >>
    /\ consumed = << >>
    /\ outcome = "none"
    /\ dispDiag = "none"
    /\ nPosted = 0
    /\ pub = NoPub
    /\ nPublish = 0
    /\ curbuf = NULL
    /\ textPtr = << >>
    /\ recFate = "none"

-----------------------------------------------------------------------------
(* nacl_main *)

statics == << ppb_var, ppb_dict, ppb_msg, pp_ins, pp_vars >>
dispVars == << dispPc, event, edit, heldEvents, arrived, outcome, dispDiag,
              textPtr, recFate >>
pubVars == << pub, nPublish >>

\* the check with the messaging interface forgotten
MissingInterface_nomsg(v, d, m) == v = NULL \/ d = NULL

\* "Check for missing interfaces"
MissingInterface(v, d, m) == v = NULL \/ d = NULL \/ m = NULL

\* setup_unix_environment("vim.tar"): a non-zero result ends nacl_main
SetupUnixEnvironment ==
    /\ mainPc = "setup"
    /\ \E ret \in {0, 1} :
         IF ret # 0
         THEN /\ mainPc' = "exited"
              /\ exitStatus' = ExitSetupFailed
         ELSE /\ mainPc' = "interfaces"
              /\ UNCHANGED exitStatus
    /\ UNCHANGED << statics, dispVars, collab_queue, consumed, nPosted, pubVars,
                    curbuf >>

\* the four assignments of the interface variables
GetInterfaces ==
    /\ mainPc = "interfaces"
    /\ \E v \in {NULL, Iface}, d \in {NULL, Iface}, m \in {NULL, Iface} :
         /\ ppb_var' = v
         /\ ppb_dict' = d
         /\ ppb_msg' = m
    /\ pp_ins' = 1
    /\ mainPc' = "check"
    /\ UNCHANGED << exitStatus, pp_vars, dispVars, collab_queue, consumed, nPosted,
                    pubVars, curbuf >>

CheckInterfaces ==
    /\ mainPc = "check"
    /\ IF MissingInterface(ppb_var, ppb_dict, ppb_msg)
       THEN /\ mainPc' = "exited"
            /\ exitStatus' = ExitMissingInterface
       ELSE /\ mainPc' = "create_vars"
            /\ UNCHANGED exitStatus
    /\ UNCHANGED << statics, dispVars, collab_queue, consumed, nPosted, pubVars,
                    curbuf >>

\* the block of UTF8_TO_VAR assignments with the one of length_key left out
CreateVars_nine ==
    /\ mainPc = "create_vars"
    /\ pp_vars' =
         [type_append_line |-> UTF8_TO_VAR(S_append_line),
          type_insert_text |-> UTF8_TO_VAR(S_insert_text),
          type_remove_line |-> UTF8_TO_VAR(S_remove_line),
          type_delete_text |-> UTF8_TO_VAR(S_delete_text),
          type_replace_line |-> UTF8_TO_VAR(S_replace_line),
          type_key |-> UTF8_TO_VAR(S_collabedit_type),
          line_key |-> UTF8_TO_VAR(S_line),
          text_key |-> UTF8_TO_VAR(S_text),
          index_key |-> UTF8_TO_VAR(S_index),
          length_key |-> pp_vars.length_key]
    /\ mainPc' = "create_thread"
    /\ UNCHANGED << exitStatus, ppb_var, ppb_dict, ppb_msg, pp_ins, dispVars,
                    collab_queue, consumed, nPosted, pubVars, curbuf >>

\* "Create PP_Vars for parsing and creating collabedit JS messages"
CreateVars ==
    /\ mainPc = "create_vars"
    /\ pp_vars' =
         [type_append_line |-> UTF8_TO_VAR(S_append_line),
          type_insert_text |-> UTF8_TO_VAR(S_insert_text),
          type_remove_line |-> UTF8_TO_VAR(S_remove_line),
          type_delete_text |-> UTF8_TO_VAR(S_delete_text),
          type_replace_line |-> UTF8_TO_VAR(S_replace_line),
          type_key |-> UTF8_TO_VAR(S_collabedit_type),
          line_key |-> UTF8_TO_VAR(S_line),
          text_key |-> UTF8_TO_VAR(S_text),
          index_key |-> UTF8_TO_VAR(S_index),
          length_key |-> UTF8_TO_VAR(S_length)]
    /\ mainPc' = "create_thread"
    /\ UNCHANGED << exitStatus, ppb_var, ppb_dict, ppb_msg, pp_ins, dispVars,
                    collab_queue, consumed, nPosted, pubVars, curbuf >>

\* pthread_create(&looper, NULL, &js_msgloop, NULL), then nacl_vim_main
StartLooper ==
    /\ mainPc = "create_thread"
    /\ dispPc' = "wait"
    /\ mainPc' = "vim_main"
    /\ UNCHANGED << exitStatus, statics, event, edit, heldEvents, arrived, outcome,
                    dispDiag, collab_queue, consumed, nPosted, pubVars, curbuf,
                    textPtr, recFate >>

-----------------------------------------------------------------------------
(* The main thread inside nacl_vim_main *)

\* the editor core takes the next edit off the queue
Dequeue ==
    /\ mainPc = "vim_main"
    /\ collab_queue # << >>
    /\ consumed' = Append(consumed, collab_dequeue(collab_queue).head)
    /\ collab_queue' = collab_dequeue(collab_queue).rest
    /\ UNCHANGED << mainPc, exitStatus, statics, dispVars, nPosted, pubVars,
                    curbuf >>

\* collab_remoteapply(edit): build the dictionary, PostMessage, Release.
\* PostMessage returns nothing; whether the bridge delivered the message
\* (sendOk) is not visible to the function, which returns void.
RemoteApply ==
    /\ mainPc = "vim_main"
    /\ nPublish < MaxPublish
    /\ \E e \in EditOps, ok \in BOOLEAN :
         pub' = [edit |-> e, dict |-> RemoteApplyDict(e),
                 calls |-> RemoteApplyCalls(e), sendOk |-> ok,
                 reported |-> "none"]
    /\ nPosted' = nPosted + CountCalls(pub'.calls, "PostMessage")
    /\ nPublish' = nPublish + 1
    /\ UNCHANGED << mainPc, exitStatus, statics, dispVars, collab_queue, consumed,
                    curbuf >>

-----------------------------------------------------------------------------
(* js_msgloop *)

\* the skip path printing the text of the unknown-type path
DiagSkip_unknown == "info: msgloop unknown collabedit type"

DiagSkip == "info: msgloop skipping non collabedit dict"
DiagUnknown == "info: msgloop unknown collabedit type"

\* the if/else chain assigns type and the variant's fields only: file_buf
\* keeps the value stored right after the malloc
KeepFileBuf(e, buf) == IF e.type = "NULL" THEN e ELSE [e EXCEPT !.file_buf = buf]

\* the block the text pointer of edit e points into, e decoded from event
\* number ev; edits of the variants without text have no text pointer
TextPtrOf(e, ev) ==
    IF "text" \in DOMAIN e
    THEN [block |-> var_to_cstr_block(Get(event, pp_vars.text_key)), ev |-> ev]
    ELSE [block |-> "none", ev |-> ev]

\* what a read of released storage can give
Garbage == { << >>, << 63 >> }

\* PSEventRelease gives the storage of event number ev back to the bridge:
\* a text pointer into that storage reads as garbage from then on.  q is a
\* sequence of edits, off the number of edits enqueued before q[1].
AfterRelease(q, off, ev, garbage) ==
    [i \in 1..Len(q) |->
        IF /\ "text" \in DOMAIN q[i]
           /\ textPtr[off + i].block = "event"
           /\ textPtr[off + i].ev = ev
        THEN [q[i] EXCEPT !.text = garbage]
        ELSE q[i]]

\* event = PSEventWaitAcquire()
WaitAcquire ==
    /\ dispPc = "wait"
    /\ Len(arrived) < MaxEvents
    /\ \E m \in InboundMsgs :
         /\ event' = m
         /\ arrived' = Append(arrived, m)
    /\ heldEvents' = heldEvents + 1
    /\ outcome' = "pending"
    /\ dispDiag' = "none"
    /\ recFate' = "none"
    /\ dispPc' = "filter"
    /\ UNCHANGED << mainPc, exitStatus, statics, edit, collab_queue, consumed,
                    nPosted, pubVars, curbuf, textPtr >>

\* the filter leaving the loop ("return NULL") where the code has "continue"
Filter_return ==
    /\ dispPc = "filter"
    /\ IF IsNotCollabedit(event)
       THEN /\ dispDiag' = "info: msgloop skipping non collabedit dict"
            /\ nPosted' = nPosted + 1
            /\ outcome' = "NotAnEdit"
            /\ dispPc' = "returned"
            /\ UNCHANGED << edit, recFate >>
       ELSE /\ edit' = [type |-> "UNSET", file_buf |-> curbuf]
            /\ recFate' = "allocated"
            /\ dispPc' = "parse"
            /\ UNCHANGED << dispDiag, nPosted, outcome >>
    /\ UNCHANGED << mainPc, exitStatus, statics, event, heldEvents, arrived,
                    collab_queue, consumed, pubVars, curbuf, textPtr >>

\* the filter: js_printf and continue (the event is not released), or
\* malloc of the collabedit_T and file_buf = curbuf
Filter ==
    /\ dispPc = "filter"
    /\ IF IsNotCollabedit(event)
       THEN /\ dispDiag' = DiagSkip
            /\ nPosted' = nPosted + 1
            /\ outcome' = "NotAnEdit"
            /\ dispPc' = "wait"
            /\ UNCHANGED << edit, recFate >>
       ELSE /\ edit' = [type |-> "UNSET", file_buf |-> curbuf]
            /\ recFate' = "allocated"
            /\ dispPc' = "parse"
            /\ UNCHANGED << dispDiag, nPosted, outcome >>
    /\ UNCHANGED << mainPc, exitStatus, statics, event, heldEvents, arrived,
                    collab_queue, consumed, pubVars, curbuf, textPtr >>

\* the unknown-type branch with "edit = NULL" left out after free(edit)
Parse_dangling ==
    /\ dispPc = "parse"
    /\ LET parsed == KeepFileBuf(ParseEdit(event), edit.file_buf)
       IN  IF parsed.type = "NULL"
           THEN /\ UNCHANGED edit
                /\ dispDiag' = DiagUnknown
                /\ nPosted' = nPosted + 1
                /\ outcome' = "UnknownKind"
                /\ recFate' = "freed"
           ELSE /\ edit' = parsed
                /\ outcome' = "Decoded"
                /\ UNCHANGED << dispDiag, nPosted, recFate >>
    /\ dispPc' = "enqueue"
    /\ UNCHANGED << mainPc, exitStatus, statics, event, heldEvents, arrived,
                    collab_queue, consumed, pubVars, curbuf, textPtr >>

\* the if/else chain; the unknown type prints, frees and clears edit
Parse ==
    /\ dispPc = "parse"
    /\ edit' = KeepFileBuf(ParseEdit(event), edit.file_buf)
    /\ IF edit'.type = "NULL"
       THEN /\ dispDiag' = DiagUnknown
            /\ nPosted' = nPosted + 1
            /\ outcome' = "UnknownKind"
            /\ recFate' = "freed"
       ELSE /\ outcome' = "Decoded"
            /\ UNCHANGED << dispDiag, nPosted, recFate >>
    /\ dispPc' = "enqueue"
    /\ UNCHANGED << mainPc, exitStatus, statics, event, heldEvents, arrived,
                    collab_queue, consumed, pubVars, curbuf, textPtr >>

\* "Enqueue the edit for processing from the main thread": the record edit
\* points to goes on the queue
Enqueue ==
    /\ dispPc = "enqueue"
    /\ IF ShouldEnqueue(edit)
       THEN /\ collab_queue' = collab_enqueue(collab_queue, edit)
            /\ textPtr' = Append(textPtr, TextPtrOf(edit, Len(arrived)))
            /\ recFate' = IF edit = NullEdit THEN recFate
                          ELSE IF recFate = "freed" THEN "freed_and_enqueued"
                          ELSE "enqueued"
       ELSE UNCHANGED << collab_queue, textPtr, recFate >>
    /\ dispPc' = "release"
    /\ UNCHANGED << mainPc, exitStatus, statics, event, edit, heldEvents, arrived,
                    outcome, dispDiag, consumed, nPosted, pubVars, curbuf >>

\* PSEventRelease(event), back to the head of the loop
Release ==
    /\ dispPc = "release"
    /\ heldEvents' = heldEvents - 1
    /\ \E garbage \in Garbage :
         /\ collab_queue' =
              AfterRelease(collab_queue, Len(consumed), Len(arrived), garbage)
         /\ consumed' = AfterRelease(consumed, 0, Len(arrived), garbage)
    /\ dispPc' = "wait"
    /\ UNCHANGED << mainPc, exitStatus, statics, event, edit, arrived, outcome,
                    dispDiag, nPosted, pubVars, curbuf, textPtr, recFate >>

-----------------------------------------------------------------------------
(* The editor core on the main thread *)

Buffers == {"buf1", "buf2"}

\* the editor makes another buffer the current one (curbuf = buf)
EditorSetCurbuf ==
    /\ mainPc = "vim_main"
    /\ \E buf \in Buffers \ {curbuf} : curbuf' = buf
    /\ UNCHANGED << mainPc, exitStatus, statics, dispVars, collab_queue, consumed,
                    nPosted, pubVars >>

-----------------------------------------------------------------------------

Next ==
    \/ SetupUnixEnvironment
    \/ GetInterfaces
    \/ CheckInterfaces
    \/ CreateVars
    \/ StartLooper
    \/ Dequeue
    \/ RemoteApply
    \/ WaitAcquire
    \/ Filter
    \/ Parse
    \/ Enqueue
    \/ Release

\* the protocol layer with the editor staying on one buffer
Spec == Init /\ [][Next]_vars

NextEditor ==
    \/ Next
    \/ EditorSetCurbuf

\* the protocol layer with the editor changing its current buffer
SpecEditor == Init /\ [][NextEditor]_vars

\* a step of js_msgloop on the event it holds
HandleStep == Filter \/ Parse \/ Enqueue \/ Release

\* the globals js_msgloop and the js_printf it calls read, the queue aside
DispatcherReads == << ppb_var, ppb_dict, ppb_msg, pp_ins, pp_vars, curbuf >>

-----------------------------------------------------------------------------
(* The wire schema as the specification states it, used to state the claims *)

WireTags == {S_append_line, S_insert_text, S_remove_line, S_delete_text,
             S_replace_line}

WireKind(tag) ==
    CASE tag = S_append_line -> "COLLAB_APPEND_LINE"
      [] tag = S_insert_text -> "COLLAB_INSERT_TEXT"
      [] tag = S_remove_line -> "COLLAB_REMOVE_LINE"
      [] tag = S_delete_text -> "COLLAB_DELETE_TEXT"
      [] tag = S_replace_line -> "COLLAB_REPLACE_LINE"

WireTag(kind) == CHOOSE tag \in WireTags : WireKind(tag) = kind

\* the keys of a variant's row, besides the discriminator
WireIntKeys(kind) ==
    CASE kind = "COLLAB_APPEND_LINE" -> {S_line}
      [] kind = "COLLAB_INSERT_TEXT" -> {S_line, S_index}
      [] kind = "COLLAB_REMOVE_LINE" -> {S_line}
      [] kind = "COLLAB_DELETE_TEXT" -> {S_line, S_index, S_length}
      [] kind = "COLLAB_REPLACE_LINE" -> {S_line}

WireTextKeys(kind) ==
    IF kind \in {"COLLAB_APPEND_LINE", "COLLAB_INSERT_TEXT", "COLLAB_REPLACE_LINE"}
    THEN {S_text} ELSE {}

\* not a mapping, or a mapping without collabedit_type
WireNotAnEdit(m) ==
    \/ m.type # "DICTIONARY"
    \/ S_collabedit_type \notin DOMAIN m.entries

\* a mapping whose discriminator is one of the five tags
WireRecognised(m) ==
    /\ ~WireNotAnEdit(m)
    /\ m.entries[S_collabedit_type].type = "STRING"
    /\ m.entries[S_collabedit_type].str \in WireTags

\* a mapping whose discriminator is none of the five tags
WireUnknownKind(m) == ~WireNotAnEdit(m) /\ ~WireRecognised(m)

\* a recognised kind with a required field absent or of the wrong type
WireMissingField(m) ==
    /\ WireRecognised(m)
    /\ LET kind == WireKind(m.entries[S_collabedit_type].str)
       IN  \/ \E k \in WireIntKeys(kind) :
                k \notin DOMAIN m.entries \/ m.entries[k].type # "INT32"
           \/ \E k \in WireTextKeys(kind) :
                k \notin DOMAIN m.entries \/ m.entries[k].type # "STRING"

\* the dispatcher takes a step
DispStep == dispPc' # dispPc

\* the messages whose handling is over
Handled ==
    IF dispPc \in {"filter", "parse", "enqueue"}
    THEN SubSeq(arrived, 1, Len(arrived) - 1)
    ELSE arrived

-----------------------------------------------------------------------------
(* C1: round trip.  The message collab_remoteapply builds for an edit passes *)
(* the filter of js_msgloop and is parsed to an edit of the same variant    *)
(* with the same value in every field of that variant.                      *)

SameEdit(a, b) ==
    /\ a.type = b.type
    /\ a.line = b.line
    /\ (a.type \in {"COLLAB_INSERT_TEXT", "COLLAB_DELETE_TEXT"} => a.index = b.index)
    /\ (a.type = "COLLAB_DELETE_TEXT" => a.length = b.length)
    /\ (a.type \in {"COLLAB_APPEND_LINE", "COLLAB_INSERT_TEXT", "COLLAB_REPLACE_LINE"}
          => a.text = b.text)

RoundTrip ==
    nPublish > 0 =>
        /\ ~IsNotCollabedit(pub.dict)
        /\ ParseEdit(pub.dict).type # "NULL"
        /\ SameEdit(ParseEdit(pub.dict), pub.edit)

RoundTripWitness ==
    /\ nPublish > 0
    /\ pub.edit.type = "COLLAB_INSERT_TEXT"
    /\ pub.edit.line = 0
    /\ pub.edit.index = INT32_MAX
    /\ pub.edit.text = << 97, 98 >>

(* C2: the edits the consumer has taken, followed by the edits still on the *)
(* queue, are exactly the edits of the recognised messages handled so far, *)
(* in arrival order, each once.                                             *)

FifoDelivery ==
    LET accepted == SelectSeq(Handled, WireRecognised)
    IN  consumed \o collab_queue = [i \in 1..Len(accepted) |-> ParseEdit(accepted[i])]

FifoDeliveryWitness ==
    /\ Len(consumed) = 1
    /\ Len(collab_queue) = 1
    /\ consumed[1] # collab_queue[1]
    /\ dispPc = "wait"

(* C3: a step of the dispatcher that filters a message which is no mapping *)
(* or has no collabedit_type classifies it NotAnEdit, leaves the queue as  *)
(* it was and ends the handling of the message.                            *)

NotAnEditNoInsertion ==
    [][(dispPc = "filter" /\ DispStep /\ WireNotAnEdit(event))
         => (outcome' = "NotAnEdit" /\ collab_queue' = collab_queue /\ dispPc' = "wait")]_vars

NotAnEditWitness ==
    /\ outcome = "NotAnEdit"
    /\ dispPc = "wait"
    /\ event.type = "DICTIONARY"
    /\ collab_queue # << >>

(* C4: a mapping whose collabedit_type is none of the five tags is          *)
(* classified UnknownKind with one diagnostic message posted; no step of   *)
(* its handling changes the queue, and the dispatcher goes on to release   *)
(* the event and wait for the next message.                                *)

UnknownKindSkipped ==
    [][(DispStep /\ WireUnknownKind(event)) =>
         /\ collab_queue' = collab_queue
         /\ dispPc = "filter" => dispPc' = "parse"
         /\ dispPc = "parse" =>
              /\ outcome' = "UnknownKind"
              /\ dispDiag' = DiagUnknown
              /\ nPosted' = nPosted + 1
              /\ dispPc' = "enqueue"
         /\ dispPc = "enqueue" => dispPc' = "release"
         /\ dispPc = "release" => dispPc' = "wait"]_vars

UnknownKindWitness ==
    /\ outcome = "UnknownKind"
    /\ dispDiag = DiagUnknown
    /\ dispPc = "wait"
    /\ event.entries[S_collabedit_type].type = "STRING"
    /\ collab_queue # << >>

(* C5: a mapping of a recognised kind that lacks a required field, or holds *)
(* it with the wrong type, is classified MissingField and no step of its   *)
(* handling changes the queue.                                             *)

MissingFieldSkipped ==
    [][(DispStep /\ WireMissingField(event)) =>
         /\ collab_queue' = collab_queue
         /\ dispPc = "parse" => outcome' = "MissingField"]_vars

(* C6: no edit on the queue carries a negative line, index or length.      *)

NoNegativeOnQueue ==
    \A i \in 1..Len(collab_queue) :
        LET e == collab_queue[i]
        IN  /\ e.line >= 0
            /\ (e.type \in {"COLLAB_INSERT_TEXT", "COLLAB_DELETE_TEXT"} => e.index >= 0)
            /\ (e.type = "COLLAB_DELETE_TEXT" => e.length >= 0)

(* C7: whatever the message it holds, the dispatcher can always take its   *)
(* next step, and every step it takes leads forward through the loop body  *)
(* and from there back to waiting for the next message; there is no state  *)
(* of the loop that it cannot leave.                                       *)

LoopEdges ==
    { <<"unborn", "wait">>, <<"wait", "filter">>, <<"filter", "wait">>,
      <<"filter", "parse">>, <<"parse", "enqueue">>, <<"enqueue", "release">>,
      <<"release", "wait">> }

DispatcherReturnsToWait ==
    /\ [](dispPc \in {"filter", "parse", "enqueue", "release"} => ENABLED HandleStep)
    /\ [][DispStep => << dispPc, dispPc' >> \in LoopEdges]_vars

DispatcherReturnsWitness ==
    /\ dispPc = "wait"
    /\ Len(arrived) = 2
    /\ WireNotAnEdit(arrived[1])
    /\ WireMissingField(arrived[2])
    /\ S_text \in DOMAIN arrived[2].entries
    /\ arrived[2].entries[S_text].type = "INT32"

(* C8: the message built for an edit holds exactly the keys of the         *)
(* variant's row, and collabedit_type holds the variant's tag string.      *)

ExactKeys ==
    nPublish > 0 =>
        LET kind == pub.edit.type
        IN  /\ pub.dict.type = "DICTIONARY"
            /\ DOMAIN pub.dict.entries =
                 {S_collabedit_type} \cup WireIntKeys(kind) \cup WireTextKeys(kind)
            /\ pub.dict.entries[S_collabedit_type].type = "STRING"
            /\ pub.dict.entries[S_collabedit_type].str = WireTag(kind)

ExactKeysWitness ==
    /\ nPublish > 0
    /\ pub.edit.type = "COLLAB_REMOVE_LINE"

(* C9: a publish whose bridge send failed reports the failure to its       *)
(* caller.                                                                 *)

SendFailureReported ==
    (nPublish > 0 /\ ~pub.sendOk) => pub.reported = "SendFailure"

(* C10: once the interfaces have been fetched and one of the three is      *)
(* missing, nacl_main returns a non-zero status other than the one of the  *)
(* failed filesystem setup, the dispatcher thread is never created, the    *)
(* editor main loop never runs and no message is received or sent.         *)

\* pp_ins is assigned together with the three interface variables
InterfaceMissing ==
    /\ pp_ins # 0
    /\ (ppb_var = NULL \/ ppb_dict = NULL \/ ppb_msg = NULL)

MissingInterfaceExits ==
    InterfaceMissing =>
        /\ mainPc \in {"check", "exited"}
        /\ mainPc = "exited" =>
             /\ exitStatus = ExitMissingInterface
             /\ exitStatus # 0
             /\ exitStatus # ExitSetupFailed
        /\ dispPc = "unborn"
        /\ arrived = << >>
        /\ nPosted = 0
        /\ nPublish = 0

MissingInterfaceWitness ==
    /\ mainPc = "exited"
    /\ exitStatus = ExitMissingInterface
    /\ ppb_var = Iface
    /\ ppb_dict = Iface
    /\ ppb_msg = NULL

(* C11: the queue is the only mutable state the two threads share: once  *)
(* the dispatcher thread runs, no step changes a variable the dispatcher   *)
(* reads other than its own locals and the queue.                          *)

OnlyQueueShared ==
    [][dispPc # "unborn" => UNCHANGED DispatcherReads]_vars

(* C12: the text of every edit put on the queue is a copy of its own: it   *)
(* is the text decoded from the message the edit came from, and the        *)
(* release of the inbound event, which hands the storage of the message    *)
(* back to the bridge, changes no edit on the queue or already taken off   *)
(* it.                                                                     *)

\* every edit enqueued so far, in the order of enqueueing
EnqueuedEdits == consumed \o collab_queue

NotAnEditSilent ==
    [][(dispPc = "filter" /\ DispStep /\ WireNotAnEdit(event)) =>
            nPosted' = nPosted]_vars

(* C13 as the code has it: such a message is dropped without a queue       *)
(* insertion and the dispatcher posts exactly one message for it, the      *)
(* informational trace "info: msgloop skipping non collabedit dict".       *)

NotAnEditTraced ==
    [][(dispPc = "filter" /\ DispStep /\ WireNotAnEdit(event)) =>
            /\ nPosted' = nPosted + 1
            /\ dispDiag' = "info: msgloop skipping non collabedit dict"
            /\ collab_queue' = collab_queue
            /\ dispPc' = "wait"]_vars

NotAnEditTracedWitness ==
    /\ dispPc = "wait"
    /\ Len(arrived) = 1
    /\ event.type = "DICTIONARY"
    /\ WireNotAnEdit(event)
    /\ dispDiag = "info: msgloop skipping non collabedit dict"
    /\ nPosted = 1
    /\ nPublish = 0

(* C14: every event the dispatcher acquires has been released exactly once *)
(* when the dispatcher waits for the next one: whenever the dispatcher is  *)
(* at PSEventWaitAcquire it holds no event.                                *)

EveryEventReleased ==
    dispPc = "wait" => heldEvents = 0

(* C15: each call of collab_remoteapply creates one dictionary, first of   *)
(* all, posts it exactly once and releases it exactly once, last of all,   *)
(* so that no created message outlives the call; the call adds exactly one *)
(* to the number of messages posted.                                       *)

\* the positions of op in the calls of the publish a step makes
CallsOf(op) == {i \in 1..Len(pub'.calls) : pub'.calls[i] = op}

StaticsInitialised ==
    /\ ppb_var # NULL
    /\ ppb_dict # NULL
    /\ ppb_msg # NULL
    /\ pp_ins # 0
    /\ \A f \in DOMAIN pp_vars : pp_vars[f].type = "STRING"
    /\ pp_vars.type_key.str = S_collabedit_type
    /\ pp_vars.line_key.str = S_line
    /\ pp_vars.text_key.str = S_text
    /\ pp_vars.index_key.str = S_index
    /\ pp_vars.length_key.str = S_length
    /\ pp_vars.type_append_line.str = WireTag("COLLAB_APPEND_LINE")
    /\ pp_vars.type_insert_text.str = WireTag("COLLAB_INSERT_TEXT")
    /\ pp_vars.type_remove_line.str = WireTag("COLLAB_REMOVE_LINE")
    /\ pp_vars.type_delete_text.str = WireTag("COLLAB_DELETE_TEXT")
    /\ pp_vars.type_replace_line.str = WireTag("COLLAB_REPLACE_LINE")

StaticsSetBeforeThread ==
    /\ []((dispPc # "unborn" \/ nPublish > 0) => StaticsInitialised)
    /\ [][dispPc # "unborn" => UNCHANGED statics]_vars

StaticsSetBeforeThreadWitness ==
    /\ dispPc = "parse"
    /\ nPublish = 1
    /\ StaticsInitialised

(* C17: the collabedit_T record malloc'ed for a message has met exactly    *)
(* one fate when its handling reaches the release of the event: it was     *)
(* enqueued (a decoded edit) or it was freed (an unknown kind), never both *)
(* and never neither; no record is malloc'ed for a skipped message; and no *)
(* step of the dispatcher changes a record that is already enqueued.       *)

OneFatePerRecord ==
    /\ [](/\ recFate # "freed_and_enqueued"
          /\ dispPc \in {"release", "wait"} =>
               /\ recFate \in {"none", "freed", "enqueued"}
               /\ outcome = "Decoded" <=> recFate = "enqueued"
               /\ outcome = "UnknownKind" <=> recFate = "freed"
               /\ outcome \in {"none", "NotAnEdit"} <=> recFate = "none")
    /\ [][DispStep =>
            \A j \in 1..Len(EnqueuedEdits) : EnqueuedEdits'[j] = EnqueuedEdits[j]]_vars

OneFatePerRecordWitness ==
    /\ dispPc = "wait"
    /\ Len(arrived) = 2
    /\ Len(collab_queue) = 1
    /\ recFate = "freed"
    /\ edit = NullEdit

(* C18: a message is decoded as variant V exactly when its discriminator   *)
(* is a string equal to V's tag: a prefix of a tag, a tag with more        *)
(* characters after it, the empty string and a value that is no string     *)
(* select no variant, and the comparison matches a discriminator with at   *)
(* most one of the five tag constants.                                     *)

\* the discriminator of the message the dispatcher holds
Discriminator == event.entries[S_collabedit_type]

ExactTagSelects ==
    dispPc = "enqueue" =>
        /\ \A tag \in WireTags :
              edit.type = WireKind(tag) <=>
                  (Discriminator.type = "STRING" /\ Discriminator.str = tag)
        /\ edit.type = "NULL" <=>
              ~(Discriminator.type = "STRING" /\ Discriminator.str \in WireTags)
        /\ Cardinality({f \in {"type_append_line", "type_insert_text",
                               "type_remove_line", "type_delete_text",
                               "type_replace_line"} :
                           pp_strcmp(Discriminator, pp_vars[f]) = 0}) <= 1

ExactTagSelectsWitness ==
    /\ dispPc = "enqueue"
    /\ Len(arrived) = 2
    /\ ~WireNotAnEdit(arrived[1])
    /\ arrived[1].entries[S_collabedit_type].str = SubSeq(S_remove_line, 1, 10)
    /\ Discriminator.str = S_remove_line \o S_a
    /\ Len(collab_queue) = 0
    /\ edit = NullEdit

=============================================================================
